---- MODULE Spec2Model ----
(***************************************************************************)
(* Model of language-server/server.py: the path authorization             *)
(* (validate_path), the extension registry (LANGUAGE_CONFIGS), the         *)
(* validation entry point (validate_file) and the tool-call handler        *)
(* (handle_call_tool).                                                     *)
(*                                                                         *)
(* A file name is a sequence of characters, a path a sequence of names.    *)
(* A Python str that is built by an f-string is a record of its format     *)
(* and its argument; an Optional[str] carries an isNone flag.              *)
(***************************************************************************)
EXTENDS Integers, Sequences, FiniteSets, TLC

VARIABLES allowed_dirs, files, pc, request, result, text, escaped, steps, spawned

vars == <<allowed_dirs, files, pc, request, result, text, escaped, steps, spawned>>

(***************************************************************************)
(* Bounds of the model.                                                    *)
(***************************************************************************)
MaxDepth == 2
NumTasks == 2
MaxDiags == 1
SevBound == 6
MaxLine == 1

(***************************************************************************)
(* The file system the server runs on.                                     *)
(***************************************************************************)
DotDot == <<".", ".">>
DirNames == {<<"r">>, <<"s">>, <<"l">>, DotDot}
FileNames == {<<"a", ".", "p", "y">>, <<"A", ".", "P", "Y">>,
              <<"a", ".", "m", "d">>, <<".", "p", "y">>,
              <<"a", ".", "t", "s">>, <<"a", ".", "j", "s">>,
              <<"a", "NUL">>}
NoName == <<>>
Root == <<>>
Cwd == << <<"r">>, <<"s">> >>
Directories == {Root, << <<"r">> >>, << <<"r">>, <<"s">> >>, << <<"e">> >>}
SymlinkAt == << <<"r">>, <<"l">> >>
SymlinkTarget == << <<"e">> >>
CandidateFiles == {<< <<"r">>, <<"s">>, <<"a", ".", "p", "y">> >>,
                   << <<"r">>, <<"A", ".", "P", "Y">> >>,
                   << <<"r">>, <<"a", ".", "m", "d">> >>,
                   << <<"e">>, <<"a", ".", "t", "s">> >>}

Exists(path) == path \in Directories \cup files

(***************************************************************************)
(* Path(...).resolve(): make absolute against the working directory, fold   *)
(* "..", follow symbolic links. A null byte in the path raises ValueError. *)
(***************************************************************************)
\* the value of an expression, computed once
The(S) == CHOOSE x \in S : TRUE

\* one component further from the resolved path at
Step(at, c) ==
    IF c = DotDot
    THEN (IF at = Root THEN Root ELSE SubSeq(at, 1, Len(at) - 1))
    ELSE IF Append(at, c) = SymlinkAt THEN SymlinkTarget
    ELSE Append(at, c)

RECURSIVE Walk(_, _, _)
Walk(start, parts, n) ==
    IF n = 0 THEN start
    ELSE The({Step(at, parts[n]) : at \in {Walk(start, parts, n - 1)}})

Parts(file_path) ==
    IF file_path.name = NoName THEN file_path.dirs
    ELSE Append(file_path.dirs, file_path.name)

HasNul(file_path) ==
    \E i \in 1..Len(Parts(file_path)) :
        \E j \in 1..Len(Parts(file_path)[i]) : Parts(file_path)[i][j] = "NUL"

Resolve(file_path) ==
    The({Walk(IF file_path.abs THEN Root ELSE Cwd, parts, Len(parts)) :
            parts \in {Parts(file_path)}})

\* variant: the path counts as its own ancestor
ParentsOrSelf(path) == {SubSeq(path, 1, n) : n \in 0..Len(path)}

\* variant: only the directory that holds the path
ParentOnly(path) ==
    IF path = Root THEN {} ELSE {SubSeq(path, 1, Len(path) - 1)}

\* path.parents: every proper ancestor of the path, the path itself excluded
Parents(path) == {SubSeq(path, 1, n) : n \in 0..(Len(path) - 1)}

\* path.suffix: the final component from its last dot, unless that dot is
\* its first or its last character
Suffix(path) ==
    IF path = Root THEN <<>>
    ELSE LET name == path[Len(path)]
             dots == {i \in 1..Len(name) : name[i] = "."}
         IN IF dots = {} THEN <<>>
            ELSE LET j == CHOOSE i \in dots : \A k \in dots : k <= i
                 IN IF j > 1 /\ j < Len(name)
                    THEN SubSeq(name, j, Len(name)) ELSE <<>>

LowerChar(c) ==
    CASE c = "A" -> "a" [] c = "P" -> "p" [] c = "Y" -> "y" [] OTHER -> c

Lower(s) == [i \in 1..Len(s) |-> LowerChar(s[i])]

(***************************************************************************)
(* Models: LanguageConfig, Diagnostic, ValidationResult.                   *)
(***************************************************************************)
LanguageConfig(command, extensions, language_id) ==
    [command |-> command, extensions |-> extensions, language_id |-> language_id]

TsCommand == <<"typescript-language-server", "--stdio">>

LANGUAGE_CONFIGS ==
    (<<".", "t", "s">> :>
        LanguageConfig(TsCommand, {<<".", "t", "s">>, <<".", "t", "s", "x">>}, "typescript"))
    @@ (<<".", "t", "s", "x">> :>
        LanguageConfig(TsCommand, {<<".", "t", "s">>, <<".", "t", "s", "x">>}, "typescriptreact"))
    @@ (<<".", "j", "s">> :>
        LanguageConfig(TsCommand, {<<".", "j", "s">>, <<".", "j", "s", "x">>}, "javascript"))
    @@ (<<".", "j", "s", "x">> :>
        LanguageConfig(TsCommand, {<<".", "j", "s">>, <<".", "j", "s", "x">>}, "javascriptreact"))
    @@ (<<".", "p", "y">> :>
        LanguageConfig(<<"pylsp">>, {<<".", "p", "y">>}, "python"))
    @@ (<<".", "z", "i", "g">> :>
        LanguageConfig(<<"zls">>, {<<".", "z", "i", "g">>}, "zig"))

Commands == {LANGUAGE_CONFIGS[e].command : e \in DOMAIN LANGUAGE_CONFIGS}

NoneStr == [isNone |-> TRUE, fmt |-> "", arg |-> <<>>]
Str(fmt, arg) == [isNone |-> FALSE, fmt |-> fmt, arg |-> arg]
\* truth value of an Optional[str]: None and the empty string are false
Truthy(s) == ~s.isNone /\ (s.fmt /= "" \/ s.arg /= <<>>)

ValidationResult(file_path, diagnostics, error) ==
    [file_path |-> file_path, diagnostics |-> diagnostics, error |-> error]

Diagnostic(message, severity, line, column, source) ==
    [message |-> message, severity |-> severity, line |-> line,
     column |-> column, source |-> source]

(***************************************************************************)
(* Exceptions: an operation either returns a value or raises.              *)
(***************************************************************************)
NoExc == [exc |-> "", msg |-> NoneStr]
Raise(exc, msg) == [exc |-> exc, msg |-> msg]

(***************************************************************************)
(* LanguageServer.__init__: the allowed directories, resolved once.        *)
(***************************************************************************)
AbsPath(dirs, name) == [abs |-> TRUE, dirs |-> dirs, name |-> name]
RelPath(dirs, name) == [abs |-> FALSE, dirs |-> dirs, name |-> name]

AllowedArgs == {{AbsPath(<< <<"r">> >>, NoName)},
                {RelPath(<<>>, NoName), AbsPath(<< <<"r">>, <<"l">> >>, NoName)}}

LanguageServerInit(dirs) == {Resolve(p) : p \in dirs}

(***************************************************************************)
(* LanguageServer.validate_path                                            *)
(***************************************************************************)
IsAllowed(path) ==
    \E allowed_dir \in allowed_dirs :
        \E parent \in Parents(path) : parent = allowed_dir

\* the checks on the resolved path: containment first, existence second
CheckPath(path) ==
    IF ~IsAllowed(path)
    THEN [ok |-> FALSE, path |-> path,
          raised |-> Raise("ValueError",
                           Str("Path not in allowed directories: ", path))]
    ELSE IF ~Exists(path)
    THEN [ok |-> FALSE, path |-> path,
          raised |-> Raise("ValueError", Str("File does not exist: ", path))]
    ELSE [ok |-> TRUE, path |-> path, raised |-> NoExc]

validate_path(file_path) ==
    IF HasNul(file_path)
    THEN [ok |-> FALSE, path |-> Root,
          raised |-> Raise("ValueError", Str("embedded null byte", <<>>))]
    ELSE The({CheckPath(path) : path \in {Resolve(file_path)}})

(***************************************************************************)
(* LanguageServer.validate_file. The record it yields carries, besides the *)
(* result, the operations performed in order (steps) and the commands of   *)
(* the backend processes started (spawn).                                  *)
(***************************************************************************)
\* variant: every validation starts the backend of its config
LspValidationSpawns(config, path) ==
    [diagnostics |-> <<>>, spawn |-> <<config.command>>]

\* the LSP validation itself is not implemented: no backend process is
\* started and no diagnostic is collected
LspValidation(config, path) == [diagnostics |-> <<>>, spawn |-> <<>>]

\* variant: the unimplemented validation is reported as an error
EmptyValidationWithError(file_path, lsp) ==
    [raised |-> NoExc, steps |-> <<"validate_path", "lookup", "select">>,
     spawn |-> lsp.spawn,
     result |-> ValidationResult(file_path, lsp.diagnostics,
                    Str("LSP validation not implemented", <<>>))]

EmptyValidation(file_path, lsp) ==
    [raised |-> NoExc, steps |-> <<"validate_path", "lookup", "select">>,
     spawn |-> lsp.spawn,
     result |-> ValidationResult(file_path, lsp.diagnostics, NoneStr)]

\* variant: an unknown extension falls through to the empty result
LookupConfigNoError(file_path, path, ext) ==
    IF ext \notin DOMAIN LANGUAGE_CONFIGS
    THEN [raised |-> NoExc, steps |-> <<"validate_path", "lookup">>,
          spawn |-> <<>>,
          result |-> ValidationResult(file_path, <<>>, NoneStr)]
    ELSE [raised |-> NoExc, steps |-> <<"validate_path", "lookup", "select">>,
          spawn |-> <<>>,
          result |-> ValidationResult(file_path, <<>>, NoneStr)]

LookupConfig(file_path, path, ext) ==
    IF ext \notin DOMAIN LANGUAGE_CONFIGS
    THEN [raised |-> NoExc, steps |-> <<"validate_path", "lookup">>,
          spawn |-> <<>>,
          result |-> ValidationResult(file_path, <<>>,
                         Str("Unsupported file type: ", <<ext>>))]
    ELSE EmptyValidation(file_path, LspValidation(LANGUAGE_CONFIGS[ext], path))

\* variant: the extension is looked up before the path check is consulted
AfterValidatePathLookupFirst(file_path, vp) ==
    IF Lower(Suffix(vp.path)) \notin DOMAIN LANGUAGE_CONFIGS
    THEN [raised |-> NoExc, steps |-> <<"lookup">>, spawn |-> <<>>,
          result |-> ValidationResult(file_path, <<>>,
                         Str("Unsupported file type: ", <<Lower(Suffix(vp.path))>>))]
    ELSE IF ~vp.ok
    THEN [raised |-> vp.raised, steps |-> <<"lookup", "validate_path">>,
          spawn |-> <<>>,
          result |-> ValidationResult(file_path, <<>>, NoneStr)]
    ELSE [raised |-> NoExc, steps |-> <<"lookup", "validate_path", "select">>,
          spawn |-> <<>>,
          result |-> ValidationResult(file_path, <<>>, NoneStr)]

AfterValidatePath(file_path, vp) ==
    IF ~vp.ok
    THEN [raised |-> vp.raised, steps |-> <<"validate_path">>, spawn |-> <<>>,
          result |-> ValidationResult(file_path, <<>>, NoneStr)]
    ELSE LookupConfig(file_path, vp.path, Lower(Suffix(vp.path)))

\* the body of the try block
TryBody(file_path) ==
    The({AfterValidatePath(file_path, vp) : vp \in {validate_path(file_path)}})

\* variant: the handler catches operating-system errors only
CaughtOnlyOSError(exc) == exc \in {"OSError"}

\* except Exception: every exception class raised in the body derives from it
Caught(exc) == exc \in {"ValueError", "RuntimeError", "OSError", "KeyError"}

ExceptException(file_path, body) ==
    IF body.raised.exc /= "" /\ Caught(body.raised.exc)
    THEN [body EXCEPT !.raised = NoExc,
                      !.result = ValidationResult(file_path, <<>>, body.raised.msg)]
    ELSE body

validate_file(file_path) ==
    The({ExceptException(file_path, body) : body \in {TryBody(file_path)}})

(***************************************************************************)
(* handle_call_tool                                                        *)
(***************************************************************************)
\* list[i] as Python indexes a list: from the end when i is negative,
\* IndexError outside -len .. len-1
PyIndex(list, i) ==
    IF i >= 0 /\ i < Len(list) THEN [raised |-> NoExc, val |-> list[i + 1]]
    ELSE IF i < 0 /\ i >= 0 - Len(list)
    THEN [raised |-> NoExc, val |-> list[Len(list) + i + 1]]
    ELSE [raised |-> Raise("IndexError", Str("list index out of range", <<>>)),
          val |-> ""]

SeverityLabels == <<"Error", "Warning", "Info", "Hint">>

SeverityLabel(diag) == PyIndex(SeverityLabels, diag.severity - 1)

DiagLines(diag, severity) ==
    <<[fmt |-> "{severity} at line {line}, column {column}: {message}",
       args |-> <<severity, diag.line, diag.column, diag.message>>]>>
    \o (IF Truthy(diag.source)
        THEN <<[fmt |-> "  Source: {source}", args |-> <<diag.source>>]>>
        ELSE <<>>)

PrependLines(lines, rest) ==
    [raised |-> rest.raised, lines |-> lines \o rest.lines]

RECURSIVE FormatDiagnostics(_)

FormatDiagnostic(diagnostics, severity) ==
    IF severity.raised.exc /= ""
    THEN [raised |-> severity.raised, lines |-> <<>>]
    ELSE PrependLines(DiagLines(Head(diagnostics), severity.val),
                      FormatDiagnostics(Tail(diagnostics)))

FormatDiagnostics(diagnostics) ==
    IF diagnostics = <<>> THEN [raised |-> NoExc, lines |-> <<>>]
    ELSE FormatDiagnostic(diagnostics, SeverityLabel(Head(diagnostics)))

Header(res) ==
    <<[fmt |-> "Validation results for {file_path}:", args |-> <<res.file_path>>]>>

\* the text built so far is lost when the loop raises
DiagnosticsText(res, body) ==
    [raised |-> body.raised,
     text |-> IF body.raised.exc /= "" THEN <<>>
              ELSE Header(res) \o <<[fmt |-> "Diagnostics:", args |-> <<>>]>>
                               \o body.lines]

FormatResult(res) ==
    IF Truthy(res.error)
    THEN [raised |-> NoExc,
          text |-> Header(res) \o <<[fmt |-> "Error: {error}", args |-> <<res.error>>]>>]
    ELSE IF res.diagnostics = <<>>
    THEN [raised |-> NoExc,
          text |-> Header(res) \o <<[fmt |-> "No issues found", args |-> <<>>]>>]
    ELSE DiagnosticsText(res, FormatDiagnostics(res.diagnostics))

\* request.params.arguments is None or a dict
NoArguments == [isNone |-> TRUE, dict |-> <<>>]
Arguments(dict) == [isNone |-> FALSE, dict |-> dict]

MissingFilePath(arguments) ==
    \/ arguments.isNone
    \/ DOMAIN arguments.dict = {}
    \/ "file_path" \notin DOMAIN arguments.dict

EmptyResult == ValidationResult(AbsPath(<<>>, NoName), <<>>, NoneStr)

ToolResult(v, f) ==
    [raised |-> f.raised, steps |-> <<"validate_file">> \o v.steps,
     spawn |-> v.spawn, result |-> v.result, text |-> f.text]

FormatValidation(v) ==
    IF v.raised.exc /= ""
    THEN [raised |-> v.raised, steps |-> <<"validate_file">> \o v.steps,
          spawn |-> v.spawn, result |-> EmptyResult, text |-> <<>>]
    ELSE ToolResult(v, FormatResult(v.result))

\* variant: a missing file_path falls back to the empty path
handle_call_tool_get(req) ==
    IF req.name /= "validate"
    THEN [raised |-> Raise("ValueError", Str("Unknown tool: ", << <<req.name>> >>)),
          steps |-> <<>>, spawn |-> <<>>, result |-> EmptyResult, text |-> <<>>]
    ELSE IF MissingFilePath(req.arguments)
    THEN FormatValidation(validate_file(RelPath(<<>>, NoName)))
    ELSE FormatValidation(validate_file(req.arguments.dict["file_path"]))

handle_call_tool(req) ==
    IF req.name /= "validate"
    THEN [raised |-> Raise("ValueError", Str("Unknown tool: ", << <<req.name>> >>)),
          steps |-> <<>>, spawn |-> <<>>, result |-> EmptyResult, text |-> <<>>]
    ELSE IF MissingFilePath(req.arguments)
    THEN [raised |-> Raise("ValueError",
                           Str("Missing required argument: file_path", <<>>)),
          steps |-> <<>>, spawn |-> <<>>, result |-> EmptyResult, text |-> <<>>]
    ELSE The({FormatValidation(v) :
                 v \in {validate_file(req.arguments.dict["file_path"])}})

(***************************************************************************)
(* The clients' requests.                                                  *)
(***************************************************************************)
SeqsUpTo(S, n) == UNION {[1..k -> S] : k \in 0..n}

FilePaths ==
    {[abs |-> a, dirs |-> d, name |-> nm] :
        a \in BOOLEAN, d \in SeqsUpTo(DirNames, MaxDepth),
        nm \in FileNames \cup {NoName}}

CallToolRequest(name, arguments) == [name |-> name, arguments |-> arguments]

NoPath == RelPath(<<>>, NoName)

BadRequests ==
    {CallToolRequest("validate", NoArguments),
     CallToolRequest("validate", Arguments(<<>>)),
     CallToolRequest("validate", Arguments("encoding" :> NoPath)),
     CallToolRequest("other", Arguments("file_path" :> NoPath))}

Requests ==
    {CallToolRequest("validate", Arguments("file_path" :> p)) : p \in FilePaths}
    \cup BadRequests

\* the path of a file that may exist, as a client names it
PathOf(path) == AbsPath(SubSeq(path, 1, Len(path) - 1), path[Len(path)])

\* the calls made concurrently: for the files a backend is configured for
ConcRequests ==
    {CallToolRequest("validate", Arguments("file_path" :> PathOf(f))) :
        f \in {g \in CandidateFiles : Lower(Suffix(g)) \in DOMAIN LANGUAGE_CONFIGS}}

NoRequest == CallToolRequest("", NoArguments)

(***************************************************************************)
(* States and actions.                                                     *)
(***************************************************************************)
InitTasks(tasks, args) ==
    /\ allowed_dirs \in {LanguageServerInit(dirs) : dirs \in args}
    /\ files \in SUBSET CandidateFiles
    /\ pc = [t \in tasks |-> "idle"]
    /\ request = [t \in tasks |-> NoRequest]
    /\ result = [t \in tasks |-> EmptyResult]
    /\ text = [t \in tasks |-> <<>>]
    /\ escaped = [t \in tasks |-> NoExc]
    /\ steps = [t \in tasks |-> <<>>]
    /\ spawned = [c \in Commands |-> 0]

\* one client that sends its calls one after the other
Init == InitTasks({1}, AllowedArgs)

\* several clients with calls in flight together, the server started on /r
InitConc == InitTasks(1..NumTasks, {{AbsPath(<< <<"r">> >>, NoName)}})

\* a client sends a tools/call request; the server starts a task for it
Send(t, req) ==
    /\ pc[t] = "idle"
    /\ pc' = [pc EXCEPT ![t] = "pending"]
    /\ request' = [request EXCEPT ![t] = req]
    /\ UNCHANGED <<allowed_dirs, files, result, text, escaped, steps, spawned>>

Request(t) == \E req \in Requests : Send(t, req)

RequestConc(t) == \E req \in ConcRequests : Send(t, req)

Count(seq, c) == Cardinality({i \in 1..Len(seq) : seq[i] = c})

Respond(t, out) ==
    /\ pc' = [pc EXCEPT ![t] = IF out.raised.exc = "" THEN "returned" ELSE "raised"]
    /\ result' = [result EXCEPT ![t] = out.result]
    /\ text' = [text EXCEPT ![t] = out.text]
    /\ escaped' = [escaped EXCEPT ![t] = out.raised]
    /\ steps' = [steps EXCEPT ![t] = out.steps]
    /\ spawned' = [c \in Commands |-> spawned[c] + Count(out.spawn, c)]

WouldSelect(req) ==
    /\ ~(req.name /= "validate")
    /\ ~MissingFilePath(req.arguments)
    /\ validate_file(req.arguments.dict["file_path"]).steps
         = <<"validate_path", "lookup", "select">>

\* variant: once a backend is selected the handler waits for diagnostics
\* that never arrive
HandleCallToolWaits(t) ==
    /\ pc[t] = "pending"
    /\ ~WouldSelect(request[t])
    /\ \E out \in {handle_call_tool(request[t])} : Respond(t, out)
    /\ UNCHANGED <<allowed_dirs, files, request>>

\* the handler runs to its end: validate_file never suspends
HandleCallTool(t) ==
    /\ pc[t] = "pending"
    /\ \E out \in {handle_call_tool(request[t])} : Respond(t, out)
    /\ UNCHANGED <<allowed_dirs, files, request>>

\* the client takes the response (or the error) of a finished call
Collect(t) ==
    /\ pc[t] \in {"returned", "raised"}
    /\ pc' = [pc EXCEPT ![t] = "idle"]
    /\ request' = [request EXCEPT ![t] = NoRequest]
    /\ result' = [result EXCEPT ![t] = EmptyResult]
    /\ text' = [text EXCEPT ![t] = <<>>]
    /\ escaped' = [escaped EXCEPT ![t] = NoExc]
    /\ steps' = [steps EXCEPT ![t] = <<>>]
    /\ UNCHANGED <<allowed_dirs, files, spawned>>

\* the file system changes between calls
FsCreate(f) ==
    /\ f \notin files
    /\ files' = files \cup {f}
    /\ UNCHANGED <<allowed_dirs, pc, request, result, text, escaped, steps, spawned>>

FsDelete(f) ==
    /\ f \in files
    /\ files' = files \ {f}
    /\ UNCHANGED <<allowed_dirs, pc, request, result, text, escaped, steps, spawned>>

FsChange == \E f \in CandidateFiles : FsCreate(f) \/ FsDelete(f)

Next ==
    \/ \E t \in DOMAIN pc : Request(t)
    \/ \E t \in DOMAIN pc : HandleCallTool(t)
    \/ \E t \in DOMAIN pc : Collect(t)
    \/ FsChange

Spec == Init /\ [][Next]_vars

NextConc ==
    \/ \E t \in DOMAIN pc : RequestConc(t)
    \/ \E t \in DOMAIN pc : HandleCallTool(t)
    \/ \E t \in DOMAIN pc : Collect(t)
    \/ FsChange

\* the event loop runs every task that is ready
FairSpec ==
    /\ InitConc
    /\ [][NextConc]_vars
    /\ \A t \in 1..NumTasks : WF_vars(HandleCallTool(t))

(***************************************************************************)
(* The formatting of a result that carries diagnostics, as a function of   *)
(* the Diagnostic values the models admit: any integer severity, line and  *)
(* column at least 0.                                                      *)
(***************************************************************************)
Severities == (0 - SevBound)..SevBound

DiagnosticValues ==
    {Diagnostic("X", sev, l, c, src) :
        sev \in Severities, l \in 0..MaxLine, c \in 0..MaxLine,
        src \in {NoneStr, Str("pylsp", <<>>)}}

FormatInputs ==
    {ValidationResult(NoPath, ds, NoneStr) :
        ds \in SeqsUpTo(DiagnosticValues, MaxDiags)}
    \cup {ValidationResult(NoPath, <<>>, Str("File does not exist: ", <<>>))}

InitFormat ==
    /\ allowed_dirs = LanguageServerInit({AbsPath(<< <<"r">> >>, NoName)})
    /\ files = {}
    /\ pc = [t \in {1} |-> "validated"]
    /\ request = [t \in {1} |-> NoRequest]
    /\ result \in [{1} -> FormatInputs]
    /\ text = [t \in {1} |-> <<>>]
    /\ escaped = [t \in {1} |-> NoExc]
    /\ steps = [t \in {1} |-> <<>>]
    /\ spawned = [c \in Commands |-> 0]

RespondText(t, f) ==
    /\ pc' = [pc EXCEPT ![t] = IF f.raised.exc = "" THEN "returned" ELSE "raised"]
    /\ text' = [text EXCEPT ![t] = f.text]
    /\ escaped' = [escaped EXCEPT ![t] = f.raised]

FormatStep(t) ==
    /\ pc[t] = "validated"
    /\ RespondText(t, FormatResult(result[t]))
    /\ UNCHANGED <<allowed_dirs, files, request, result, steps, spawned>>

NextFormat == \E t \in DOMAIN pc : FormatStep(t)

SpecFormat == InitFormat /\ [][NextFormat]_vars

(***************************************************************************)
(* Properties. The notions they use are stated here, apart from the        *)
(* operators that model the code.                                          *)
(***************************************************************************)
HasFilePath(req) ==
    /\ req.name = "validate"
    /\ ~req.arguments.isNone
    /\ "file_path" \in DOMAIN req.arguments.dict

Done(t) == pc[t] \in {"returned", "raised"}

\* the handler has run validate_file for the request of task t
Called(t) == Done(t) /\ HasFilePath(request[t])

PathArg(t) == request[t].arguments.dict["file_path"]

IsProperPrefix(d, path) ==
    /\ Len(d) < Len(path)
    /\ \A i \in 1..Len(d) : d[i] = path[i]

\* strictly nested under an allowed directory
Inside(path) == \E d \in allowed_dirs : IsProperPrefix(d, path)

NestedBy(path, n) ==
    \E d \in allowed_dirs : IsProperPrefix(d, path) /\ Len(path) >= Len(d) + n

OnDisk(path) == path \in Directories \/ path \in files

Registered(ext) ==
    ext \in {<<".", "t", "s">>, <<".", "t", "s", "x">>, <<".", "j", "s">>,
             <<".", "j", "s", "x">>, <<".", "p", "y">>, <<".", "z", "i", "g">>}

ExtOf(file_path) ==
    Lower(Suffix(IF HasNul(file_path) THEN Parts(file_path) ELSE Resolve(file_path)))

NotAllowed == "Path not in allowed directories: "
NotFound == "File does not exist: "
Unsupported == "Unsupported file type: "

Has(seq, x) == \E i \in 1..Len(seq) : seq[i] = x

NothingSpawned == \A c \in Commands : spawned[c] = 0

\* C1: validate_file never raises to its caller: every call returns a
\* ValidationResult for the path it was given, and when a step failed (the
\* path is not allowed, is not found, has no registered extension, or the
\* resolution itself raised) the error field holds that failure.
C1_ValidateNeverRaises ==
    \A t \in DOMAIN pc :
        Called(t) =>
            /\ pc[t] = "returned"
            /\ escaped[t] = NoExc
            /\ result[t].file_path = PathArg(t)
            /\ HasNul(PathArg(t)) => result[t].error.fmt = "embedded null byte"
            /\ (~HasNul(PathArg(t)) /\ ~Inside(Resolve(PathArg(t))))
                   => result[t].error.fmt = NotAllowed
            /\ (~HasNul(PathArg(t)) /\ Inside(Resolve(PathArg(t)))
                  /\ ~Registered(ExtOf(PathArg(t))))
                   => result[t].error.fmt \in {NotFound, Unsupported}
            /\ ~Has(steps[t], "select") => Truthy(result[t].error)

\* a call whose path resolution raised has returned a result
C1_Witness ==
    \E t \in DOMAIN pc :
        /\ Called(t) /\ HasNul(PathArg(t))
        /\ pc[t] = "returned" /\ Truthy(result[t].error)

\* C2: a path whose resolved form is not a proper descendant of an allowed
\* directory (an allowed directory itself included, on disk or not) fails
\* with NotAllowed, never with NotFound and never succeeds.
C2_OutsideIsNotAllowed ==
    \A t \in DOMAIN pc :
        (Called(t) /\ ~HasNul(PathArg(t)) /\ ~Inside(Resolve(PathArg(t))))
            => /\ result[t].error = Str(NotAllowed, Resolve(PathArg(t)))
               /\ steps[t] = <<"validate_file", "validate_path">>

\* the path of an allowed directory itself, which exists, was refused
C2_Witness ==
    \E t \in DOMAIN pc :
        /\ Called(t) /\ ~HasNul(PathArg(t))
        /\ Resolve(PathArg(t)) \in allowed_dirs
        /\ OnDisk(Resolve(PathArg(t)))
        /\ result[t].error.fmt = NotAllowed

\* C3: a path inside an allowed directory, at any depth, that exists on
\* disk when the call runs is authorized: validate_path returns its
\* resolved form and the call goes on to the extension lookup.
C3_InsideExistingIsAuthorized ==
    [][\A t \in DOMAIN pc :
          (/\ pc[t] = "pending" /\ pc'[t] /= "pending"
           /\ HasFilePath(request[t]) /\ ~HasNul(PathArg(t))
           /\ Inside(Resolve(PathArg(t))) /\ OnDisk(Resolve(PathArg(t))))
          => /\ validate_path(PathArg(t))
                  = [ok |-> TRUE, path |-> Resolve(PathArg(t)), raised |-> NoExc]
             /\ Has(steps'[t], "lookup")
             /\ result'[t].error.fmt \notin {NotAllowed, NotFound}]_vars

\* a file two levels below an allowed directory, named through "..", a
\* relative path or a link, was authorized
C3_Witness ==
    \E t \in DOMAIN pc :
        /\ Called(t) /\ ~HasNul(PathArg(t))
        /\ NestedBy(Resolve(PathArg(t)), 2)
        /\ Resolve(PathArg(t)) \in files
        /\ Parts(PathArg(t)) /= Resolve(PathArg(t))
        /\ Has(steps[t], "lookup")

\* C4: for an extension that is not in LANGUAGE_CONFIGS (compared in lower
\* case) validate_file returns a non-empty error and no diagnostics.
C4_UnregisteredExtension ==
    \A t \in DOMAIN pc :
        (Called(t) /\ ~Registered(ExtOf(PathArg(t))))
            => /\ pc[t] = "returned"
               /\ Truthy(result[t].error)
               /\ result[t].diagnostics = <<>>

\* an authorized, existing file of an unregistered extension was refused
C4_Witness ==
    \E t \in DOMAIN pc :
        /\ Called(t) /\ ~HasNul(PathArg(t))
        /\ Resolve(PathArg(t)) \in files
        /\ ExtOf(PathArg(t)) = <<".", "m", "d">>
        /\ result[t].error = Str(Unsupported, <<ExtOf(PathArg(t))>>)

\* C5: an authorized, existing file of a registered extension yields the
\* result {file_path, diagnostics: [], error: null}, reported as no issues.
C5_CleanFileEmptyResult ==
    [][\A t \in DOMAIN pc :
          (/\ pc[t] = "pending" /\ pc'[t] /= "pending"
           /\ HasFilePath(request[t]) /\ ~HasNul(PathArg(t))
           /\ Inside(Resolve(PathArg(t))) /\ OnDisk(Resolve(PathArg(t)))
           /\ Registered(ExtOf(PathArg(t))))
          => /\ pc'[t] = "returned"
             /\ result'[t] = ValidationResult(PathArg(t), <<>>, NoneStr)
             /\ text'[t][Len(text'[t])].fmt = "No issues found"]_vars

\* /r/s/a.py under the allowed directory /r, as in the end-to-end example
C5_Witness ==
    \E t \in DOMAIN pc :
        /\ allowed_dirs = {<< <<"r">> >>}
        /\ Called(t)
        /\ PathArg(t) = AbsPath(<< <<"r">>, <<"s">> >>, <<"a", ".", "p", "y">>)
        /\ result[t] = ValidationResult(PathArg(t), <<>>, NoneStr)

IsDiagLine(line) ==
    line.fmt = "{severity} at line {line}, column {column}: {message}"

\* the label printed for the i-th diagnostic of task t
PrintedLabel(t, i) == SelectSeq(text[t], IsDiagLine)[i].args[1]

C6_FixedMapping ==
    \A t \in DOMAIN pc :
        (pc[t] = "returned" /\ ~Truthy(result[t].error)) =>
            \A i \in 1..Len(result[t].diagnostics) :
                result[t].diagnostics[i].severity \in 1..4 =>
                    PrintedLabel(t, i)
                      = <<"Error", "Warning", "Info", "Hint">>
                            [result[t].diagnostics[i].severity]

\* C7: a validate call without arguments, or without the file_path key, is
\* rejected with "Missing required argument: file_path" before
\* validate_file runs: no path check, no lookup, no backend.
C7_MissingArgumentsRejected ==
    \A t \in DOMAIN pc :
        (Done(t) /\ request[t].name = "validate" /\ ~HasFilePath(request[t]))
            => /\ pc[t] = "raised"
               /\ escaped[t] = Raise("ValueError",
                                     Str("Missing required argument: file_path", <<>>))
               /\ steps[t] = <<>>
               /\ text[t] = <<>>
               /\ NothingSpawned

\* a call whose arguments hold another key only was rejected
C7_Witness ==
    \E t \in DOMAIN pc :
        /\ pc[t] = "raised"
        /\ request[t].name = "validate"
        /\ ~request[t].arguments.isNone
        /\ DOMAIN request[t].arguments.dict = {"encoding"}
        /\ steps[t] = <<>>

\* C8: every validate call in flight eventually returns a result, whatever
\* its path and whatever other calls are in flight.
C8_EveryCallReturns ==
    \A t \in 1..NumTasks :
        (pc[t] = "pending" /\ HasFilePath(request[t])) ~> (pc[t] = "returned")

\* a call has returned while another one is still in flight
C8_Witness ==
    \E t \in DOMAIN pc : \E u \in DOMAIN pc :
        /\ t /= u
        /\ Called(t) /\ pc[t] = "returned"
        /\ Has(steps[t], "select")
        /\ pc[u] = "pending" /\ HasFilePath(request[u])

C10_AuthorizeBeforeLookup ==
    \A t \in DOMAIN pc :
        Called(t) =>
            /\ result[t].error.fmt \in {NotAllowed, NotFound}
                   => steps[t] = <<"validate_file", "validate_path">>
            /\ (~HasNul(PathArg(t)) /\ ~Inside(Resolve(PathArg(t))))
                   => result[t].error.fmt = NotAllowed
            /\ result[t].error.fmt = Unsupported
                   => steps[t] = <<"validate_file", "validate_path", "lookup">>
            /\ Truthy(result[t].error)
                   => ~Has(steps[t], "select") /\ NothingSpawned
            /\ Has(steps[t], "select")
                   => steps[t] = <<"validate_file", "validate_path", "lookup", "select">>

\* a path outside the allowed directories whose extension is not
\* registered either was refused as not allowed
C10_Witness ==
    \E t \in DOMAIN pc :
        /\ Called(t) /\ ~HasNul(PathArg(t))
        /\ ~Inside(Resolve(PathArg(t)))
        /\ ExtOf(PathArg(t)) = <<".", "m", "d">>
        /\ result[t].error.fmt = NotAllowed

====
